---- MODULE Spec2Model ----
(***************************************************************************)
(* xflight: the Inflight registry of src/src/index.ts.                     *)
(*                                                                         *)
(* The registry is a plain JavaScript object used as a map (_inflights)    *)
(* plus a running counter (_count).  Promises live outside the registry:   *)
(* each has a settlement state, a list of reactions attached with then(),  *)
(* and settled promises hand their reactions to the microtask queue.       *)
(* Every method is a pure operator on a snapshot of the whole state, so a  *)
(* factory that calls back into the registry is plain composition.         *)
(***************************************************************************)
EXTENDS Integers, Sequences, FiniteSets, TLC

\* ------------------------------------------------------------------ bounds
MaxPromises == 2
MaxTime == 2
MaxCallbacks == 1

\* ------------------------------------------------------------ value universe
\* Keys are strings.  "constructor" is a name every object literal inherits
\* from Object.prototype, so this._inflights["constructor"] is never
\* undefined on a fresh {}.
Keys == {"k1", "k2", "constructor"}
ProtoKeys == {"constructor"}
\* The empty string is a property name like any other, but it is falsy where a
\* method tests `if (key)`.
EMPTY_KEY == ""
\* the keys the manual interface is driven with, and every key of the model
ManualKeys == {"k1", EMPTY_KEY, "constructor"}
AllKeys == Keys \cup ManualKeys

PromiseOf(i) == "p" \o ToString(i)
Promises == {PromiseOf(i) : i \in 1..MaxPromises}

UNDEFINED == "undefined"
\* a truthy value without a then property (the tests add "hello" / return "foo")
HELLO == "hello"
\* an object whose then property is not callable: { then: 1 }
THEN_NOT_FN == "thenNotFn"
\* an object whose then is a function that throws when called
BAD_THENABLE == "badThenable"

\* a promise the caller made itself and hands to add(); no factory returns it
USER_PROMISE == "userPromise"

NonFutures == {UNDEFINED, HELLO, THEN_NOT_FN}
ManualValues == {HELLO, USER_PROMISE}

\* the optional `now` argument: <<>> when omitted, <<t>> when given
NoNow == << >>
NowArgs == {NoNow} \cup {<<t>> : t \in 0..MaxTime}

\* ------------------------------------------------------------------ errors
NoErr == [msg |-> "", about |-> ""]
AssertionError(msg, key) == [msg |-> msg, about |-> key]
MsgNotPromise == "didn't return a promise"
MsgExists == "already exist"
MsgMissing == "removing non-existing item"
MsgEmpty == "but list is empty"
\* the error a throwing factory throws, and the one a bad thenable's then throws
FactoryError == [msg |-> "boom", about |-> ""]
ThenError == [msg |-> "then threw", about |-> ""]

\* what a call hands back: a value, a rejected promise made by
\* this.Promise.reject(err), or nothing (void)
Value(v) == [kind |-> "value", value |-> v, err |-> NoErr]
Rejected(e) == [kind |-> "rejected", value |-> UNDEFINED, err |-> e]
Void == [kind |-> "void", value |-> UNDEFINED, err |-> NoErr]

\* ------------------------------------------------------------ the map slots
\* A property of _inflights is absent, holds undefined (after remove), or
\* holds an InflightItem.  A lookup of an absent own property falls through
\* to Object.prototype.
Absent == [tag |-> "absent", start |-> 0, lastXTime |-> 0, value |-> UNDEFINED]
Undef == [tag |-> "undefined", start |-> 0, lastXTime |-> 0, value |-> UNDEFINED]
ProtoObj == [tag |-> "proto", start |-> 0, lastXTime |-> 0, value |-> UNDEFINED]
Item(start, lastXTime, value) ==
    [tag |-> "item", start |-> start, lastXTime |-> lastXTime, value |-> value]

EmptyObject == [k \in AllKeys |-> Absent]

\* this._inflights[key]
GetSlot(infl, key) ==
    IF infl[key].tag = "absent"
    THEN IF key \in ProtoKeys THEN ProtoObj ELSE Undef
    ELSE infl[key]

\* x === undefined
IsUndefined(x) == x.tag = "undefined"
\* if (x) / x && ... on a looked-up slot
Falsy(x) == x.tag = "undefined"
Truthy(x) == x.tag # "undefined"

\* the looser test p && p.then: any truthy then passes
IsPromiseLikeLoose(v) == v \in Promises \/ v \in {BAD_THENABLE, THEN_NOT_FN}

\* p && typeof p.then === "function"
IsPromiseLike(v) == v \in Promises \/ v = BAD_THENABLE

\* now || Date.now()
NowOrDate(now, dateNow) ==
    IF now = NoNow THEN dateNow
    ELSE IF now[1] = 0 THEN dateNow ELSE now[1]

VARIABLES
    count,      \* this._count
    inflights,  \* this._inflights
    clock,      \* Date.now()
    pstate,     \* settlement state of every promise
    reacts,     \* reactions attached to a pending promise, in then() order
    jobs,       \* the microtask queue
    started,    \* for each promise, the key whose factory returned it
    order,      \* the own properties of this._inflights, in insertion order
    objectLastX \* the lastXTime property of the inherited Object (0: not set)

vars == <<count, inflights, clock, pstate, reacts, jobs, started, order, objectLastX>>

Cur ==
    [count |-> count, inflights |-> inflights, clock |-> clock, pstate |-> pstate,
     reacts |-> reacts, jobs |-> jobs, started |-> started, order |-> order,
     objectLastX |-> objectLastX]

\* the property order after this._inflights[key] = ...: a new own property goes
\* last, an existing one keeps its place
OrderAfterSet(s, key) ==
    IF s.inflights[key].tag = "absent" THEN Append(s.order, key) ELSE s.order

\* ------------------------------------------------------------- the methods
\* Every method maps a snapshot s of the state to the snapshot after the call
\* and what the call handed back (ret) or threw (threw, err).

\* add() that counts before it asserts
addCountFirst(s, key, value, now) ==
    IF ~IsUndefined(GetSlot(s.inflights, key))
    THEN [s |-> [s EXCEPT !.count = @ + 1], threw |-> TRUE,
          err |-> AssertionError(MsgExists, key), ret |-> Void]
    ELSE LET t == NowOrDate(now, s.clock)
         IN  [s |-> [s EXCEPT !.count = @ + 1,
                              !.inflights[key] = Item(t, t, value),
                              !.order = OrderAfterSet(s, key)],
              threw |-> FALSE, err |-> NoErr, ret |-> Value(value)]

\* add(key, value, now)                                   src/index.ts 74-80
add(s, key, value, now) ==
    IF ~IsUndefined(GetSlot(s.inflights, key))
    THEN [s |-> s, threw |-> TRUE, err |-> AssertionError(MsgExists, key),
          ret |-> Void]
    ELSE LET t == NowOrDate(now, s.clock)
         IN  [s |-> [s EXCEPT !.count = @ + 1,
                              !.inflights[key] = Item(t, t, value),
                              !.order = OrderAfterSet(s, key)],
              threw |-> FALSE, err |-> NoErr, ret |-> Value(value)]

\* get(key)                                               src/index.ts 87-90
get(s, key) ==
    LET x == GetSlot(s.inflights, key)
    IN  IF Truthy(x) THEN x.value ELSE UNDEFINED

\* a remove that forgets to clear the key's property
InflightsAfterRemoveKept(infl, key, newCount) ==
    IF newCount = 0 THEN EmptyObject ELSE infl

\* the mapping after a successful remove: reset when the count reaches zero,
\* otherwise the key's property is set to undefined
InflightsAfterRemove(infl, key, newCount) ==
    IF newCount = 0 THEN EmptyObject
    ELSE [infl EXCEPT ![key] = Undef]

\* remove(key)                                            src/index.ts 96-108
remove(s, key) ==
    IF IsUndefined(GetSlot(s.inflights, key))
    THEN [s |-> s, threw |-> TRUE, err |-> AssertionError(MsgMissing, key)]
    ELSE IF ~(s.count > 0)
    THEN [s |-> s, threw |-> TRUE, err |-> AssertionError(MsgEmpty, key)]
    ELSE [s |-> [s EXCEPT !.count = @ - 1,
                          !.inflights = InflightsAfterRemove(@, key, s.count - 1),
                          !.order = IF s.count - 1 = 0 THEN << >>
                                    ELSE OrderAfterSet(s, key)],
          threw |-> FALSE, err |-> NoErr]

\* isEmpty, count                                         src/index.ts 113-122
isEmpty(s) == s.count = 0
countOf(s) == s.count

\* ------------------------------------------------------------ time queries
\* What a time query hands back: a number, undefined, or NaN (a number minus
\* undefined).
Num(n) == [kind |-> "number", n |-> n]
NotANumber == [kind |-> "NaN", n |-> 0]
UndefinedNum == [kind |-> "undefined", n |-> 0]

\* getStartTime(key): x && x.start                        src/index.ts 129-132
\* The inherited Object is truthy and has no start property.
getStartTime(s, key) ==
    LET x == GetSlot(s.inflights, key)
    IN  IF Truthy(x) /\ x.tag = "item" THEN Num(x.start) ELSE UndefinedNum

\* time(key, now)                                         src/index.ts 140-146
time(s, key, now) ==
    LET x == GetSlot(s.inflights, key)
    IN  IF Truthy(x)
        THEN IF x.tag = "item" THEN Num(NowOrDate(now, s.clock) - x.start)
             ELSE NotANumber
        ELSE Num(-1)

\* elapseTime(key, now)                                   src/index.ts 154-156
elapseTime(s, key, now) == time(s, key, now)

\* x.lastXTime of a truthy slot x: an item's own field, or the property
\* resetCheckTime may have put on the inherited Object
LastXOf(s, x) ==
    IF x.tag = "item" THEN Num(x.lastXTime)
    ELSE IF s.objectLastX = 0 THEN UndefinedNum ELSE Num(s.objectLastX)

\* getCheckTime(key): x && x.lastXTime                    src/index.ts 163-166
getCheckTime(s, key) ==
    LET x == GetSlot(s.inflights, key)
    IN  IF Truthy(x) THEN LastXOf(s, x) ELSE UndefinedNum

\* lastCheckTime(key, now)                                src/index.ts 174-181
lastCheckTime(s, key, now) ==
    LET x == GetSlot(s.inflights, key)
    IN  IF Truthy(x)
        THEN IF LastXOf(s, x).kind = "number"
             THEN Num(NowOrDate(now, s.clock) - LastXOf(s, x).n)
             ELSE NotANumber
        ELSE Num(-1)

\* elapseCheckTime(key, now)                              src/index.ts 189-191
elapseCheckTime(s, key, now) == lastCheckTime(s, key, now)

\* the optional key argument: <<>> when omitted, <<k>> when given
NoKey == << >>
KeyArgs == {NoKey} \cup {<<k>> : k \in AllKeys}
\* what resetCheckTime returns
THIS == "this"

\* x.lastXTime = now || Date.now() on a truthy slot of key
SetLastX(s, key, now) ==
    LET x == GetSlot(s.inflights, key)
    IN  IF ~Truthy(x) THEN s
        ELSE IF x.tag = "item"
        THEN [s EXCEPT !.inflights[key].lastXTime = NowOrDate(now, s.clock)]
        ELSE [s EXCEPT !.objectLastX = NowOrDate(now, s.clock)]

\* Object.values(this._inflights).forEach(x => { if (x) x.lastXTime = now ||
\* Date.now() }) from the i-th own property on.  Every callback reads the clock
\* itself; the clock moves on by one just before the callback of position
\* tickAt (0: it stands still during the call).
RECURSIVE ResetFrom(_, _, _, _)
ResetFrom(s, now, i, tickAt) ==
    IF i > Len(s.order) THEN s
    ELSE LET s1 == IF i = tickAt /\ s.clock < MaxTime
                   THEN [s EXCEPT !.clock = @ + 1] ELSE s
             k == s1.order[i]
         IN  ResetFrom(SetLastX(s1, k, now), now, i + 1, tickAt)

\* the positions of the visit at which the clock can move on (0: nowhere)
TickPositions == 0..Cardinality(AllKeys)

\* if (key): an omitted key and the empty string are both falsy
KeyGiven(keyArg) == keyArg # NoKey /\ keyArg[1] # EMPTY_KEY

\* resetCheckTime(key, now)                               src/index.ts 199-214
resetCheckTime(s, keyArg, now, tickAt) ==
    [s |-> IF KeyGiven(keyArg) THEN SetLastX(s, keyArg[1], now)
           ELSE ResetFrom(s, now, 1, tickAt),
     threw |-> FALSE, err |-> NoErr, ret |-> Value(THIS)]

\* ------------------------------------------------------- promise reactions
\* .then(remove): no handler on the rejection path
HookReactionFulfilOnly(key, p) ==
    [key |-> key, p |-> p, onFulfilled |-> TRUE, onRejected |-> FALSE,
     who |-> "hook"]

\* .then(remove, remove) with remove = () => this.remove(key): one reaction
\* with a handler on either settlement path
HookReaction(key, p) ==
    [key |-> key, p |-> p, onFulfilled |-> TRUE, onRejected |-> TRUE,
     who |-> "hook"]

\* the completion callback a caller of promise(key, f) attaches to the promise
\* it was handed: p.then(cb, cb)
CallerReaction(key, p) ==
    [key |-> key, p |-> p, onFulfilled |-> TRUE, onRejected |-> TRUE,
     who |-> "caller"]

\* the microtask a settled promise queues for one reaction
JobFor(r, outcome) ==
    [key |-> r.key, p |-> r.p, who |-> r.who,
     call |-> IF outcome = "fulfilled" THEN r.onFulfilled ELSE r.onRejected]

\* promise() that registers the factory's promise without attaching the hook
thenHookSkipped(s, p, key) ==
    IF p \notin Promises
    THEN [s |-> s, threw |-> TRUE, err |-> ThenError]
    ELSE [s |-> s, threw |-> FALSE, err |-> NoErr]

\* p.then(remove, remove) on the value add() returned.  A promise that is
\* still pending keeps the reaction; a settled one queues it at once; a
\* thenable whose then throws raises, and so does calling a then that is no
\* function.
thenHook(s, p, key) ==
    IF p \notin Promises
    THEN [s |-> s, threw |-> TRUE, err |-> ThenError]
    ELSE IF s.pstate[p] = "pending"
    THEN [s |-> [s EXCEPT !.reacts[p] = Append(@, HookReaction(key, p))],
          threw |-> FALSE, err |-> NoErr]
    ELSE [s |-> [s EXCEPT !.jobs = Append(@, JobFor(HookReaction(key, p), s.pstate[p]))],
          threw |-> FALSE, err |-> NoErr]

\* p.then(cb, cb) by a caller that holds p
thenCaller(s, p, key) ==
    IF s.pstate[p] = "pending"
    THEN [s EXCEPT !.reacts[p] = Append(@, CallerReaction(key, p))]
    ELSE [s EXCEPT !.jobs = Append(@, JobFor(CallerReaction(key, p), s.pstate[p]))]

\* ---------------------------------------------------------------- factories
\* A factory is described by what it does when called: it may first call back
\* into the registry (pre = "add" or "promise" on pkey), then it throws or
\* returns value.
\* returns value.  A promise it returns was made by the factory and is, at that
\* moment, pending or already settled (born).
Factory(kind, value, born, pre, pkey, pvalue) ==
    [kind |-> kind, value |-> value, born |-> born, pre |-> pre, pkey |-> pkey,
     pvalue |-> pvalue]
Throwing == Factory("throw", UNDEFINED, "pending", "none", "", UNDEFINED)
Returning(v, born) == Factory("return", v, born, "none", "", UNDEFINED)
NoFactory == Factory("none", UNDEFINED, "pending", "none", "", UNDEFINED)

RECURSIVE promise(_, _, _)

\* promiseFactory()                                       src/index.ts 58
CallFactory(s, key, fac) ==
    LET s1 == CASE fac.pre = "add" -> add(s, fac.pkey, fac.pvalue, NoNow).s
                [] fac.pre = "promise" ->
                        promise(s, fac.pkey, Returning(fac.pvalue, "pending")).s
                [] OTHER -> s
    IN  IF fac.kind = "throw"
        THEN [s |-> s1, threw |-> TRUE, err |-> FactoryError, value |-> UNDEFINED]
        ELSE [s |-> IF fac.value \in Promises
                    THEN [s1 EXCEPT !.started[fac.value] = key,
                                    !.pstate[fac.value] = fac.born]
                    ELSE s1,
              threw |-> FALSE, err |-> NoErr, value |-> fac.value]

\* the try block of promise()                             src/index.ts 58-61
PromiseTry(s, key, fac) ==
    LET r == CallFactory(s, key, fac)
    IN  IF r.threw
        THEN [s |-> r.s, threw |-> TRUE, err |-> r.err, ret |-> Void]
        ELSE IF ~IsPromiseLike(r.value)
        THEN [s |-> r.s, threw |-> TRUE,
              err |-> AssertionError(MsgNotPromise, key), ret |-> Void]
        ELSE
          LET a == add(r.s, key, r.value, NoNow)
          IN  IF a.threw
              THEN [s |-> a.s, threw |-> TRUE, err |-> a.err, ret |-> Void]
              ELSE
                LET t == thenHook(a.s, r.value, key)
                IN  IF t.threw
                    THEN [s |-> t.s, threw |-> TRUE, err |-> t.err, ret |-> Void]
                    ELSE [s |-> t.s, threw |-> FALSE, err |-> NoErr,
                          ret |-> Value(r.value)]

\* no catch: what the try block throws leaves promise()
PromiseNoCatch(t) == t

\* a catch that rejects with an error of its own
PromiseCatchOwnError(t) ==
    IF t.threw
    THEN [s |-> t.s, threw |-> FALSE, err |-> NoErr,
          ret |-> Rejected(AssertionError(MsgNotPromise, ""))]
    ELSE t

\* catch (err) { return this.Promise.reject(err); }       src/index.ts 62-64
PromiseCatch(t) ==
    IF t.threw
    THEN [s |-> t.s, threw |-> FALSE, err |-> NoErr, ret |-> Rejected(t.err)]
    ELSE t

\* promise() without the lookup of lines 50-53: the factory is always called
promiseNoLookup(s, key, fac) ==
    LET c == PromiseCatch(PromiseTry(s, key, fac))
    IN  [s |-> c.s, threw |-> c.threw, err |-> c.err, ret |-> c.ret,
         invoked |-> TRUE]

\* promise(key, promiseFactory)                           src/index.ts 49-65
promise(s, key, fac) ==
    LET f == GetSlot(s.inflights, key)
    IN  IF Truthy(f)
        THEN [s |-> s, threw |-> FALSE, err |-> NoErr, ret |-> Value(f.value),
              invoked |-> FALSE]
        ELSE LET c == PromiseCatch(PromiseTry(s, key, fac))
             IN  [s |-> c.s, threw |-> c.threw, err |-> c.err, ret |-> c.ret,
                  invoked |-> TRUE]

\* ------------------------------------------------- the class of lib/index.js
\* lib/index.js ships a second Inflight class.  Its add, get, remove, isEmpty,
\* count, getStartTime, time, elapseTime, getCheckTime, lastCheckTime and
\* elapseCheckTime have the statements of src/index.ts and are the operators
\* above; promise and resetCheckTime differ and are modelled here.

\* the TypeError of calling a then property that is no function
NotAFunctionError == [msg |-> "then is not a function", about |-> ""]

\* p && p.then                                            lib/index.js 23
libIsPromiseLike(v) == v \in Promises \/ v \in {BAD_THENABLE, THEN_NOT_FN}

\* the try block of promise()                             lib/index.js 21-25
libPromiseTry(s, key, fac) ==
    LET r == CallFactory(s, key, fac)
    IN  IF r.threw
        THEN [s |-> r.s, threw |-> TRUE, err |-> r.err, ret |-> Void]
        ELSE IF ~libIsPromiseLike(r.value)
        THEN [s |-> r.s, threw |-> TRUE,
              err |-> AssertionError(MsgNotPromise, key), ret |-> Void]
        ELSE
          LET a == add(r.s, key, r.value, NoNow)
          IN  IF a.threw
              THEN [s |-> a.s, threw |-> TRUE, err |-> a.err, ret |-> Void]
              ELSE
                LET h == thenHook(a.s, r.value, key)
                IN  IF h.threw
                    THEN [s |-> h.s, threw |-> TRUE,
                          err |-> IF r.value = THEN_NOT_FN THEN NotAFunctionError
                                  ELSE h.err,
                          ret |-> Void]
                    ELSE [s |-> h.s, threw |-> FALSE, err |-> NoErr,
                          ret |-> Value(r.value)]

\* promise(key, func)                                     lib/index.js 13-29
libPromise(s, key, fac) ==
    LET f == GetSlot(s.inflights, key)
    IN  IF Truthy(f)
        THEN [s |-> s, threw |-> FALSE, err |-> NoErr, ret |-> Value(f.value),
              invoked |-> FALSE]
        ELSE LET c == PromiseCatch(libPromiseTry(s, key, fac))
             IN  [s |-> c.s, threw |-> c.threw, err |-> c.err, ret |-> c.ret,
                  invoked |-> TRUE]

\* resetCheckTime(key, now)                               lib/index.js 104-110
\* No test of key: an omitted key looks up the property "undefined", which no
\* key of the model is, and finds nothing.
libResetCheckTime(s, keyArg, now) ==
    [s |-> IF keyArg = NoKey THEN s ELSE SetLastX(s, keyArg[1], now),
     threw |-> FALSE, err |-> NoErr, ret |-> Value(THIS)]

\* ------------------------------------------------------------------- inputs
\* The factories a caller may pass in state s.  A factory that returns a
\* promise returns one no factory has returned before (the lowest-numbered).
Unstarted(s) == {i \in 1..MaxPromises : s.started[PromiseOf(i)] = "none"}
Lowest(S) == CHOOSE i \in S : \A j \in S : i <= j
Outcomes == {"fulfilled", "rejected"}

\* factories that do not call back into the registry
PlainFactories(s) ==
    LET U == Unstarted(s)
    IN  {Throwing}
        \cup {Returning(v, "pending") : v \in NonFutures \cup {BAD_THENABLE}}
        \cup (IF U = {} THEN {}
              ELSE {Returning(PromiseOf(Lowest(U)), b) : b \in {"pending"} \cup Outcomes})

\* factories that call add() or promise() on the registry while they run
ReentrantFactories(s) ==
    LET U == Unstarted(s)
    IN  (IF U = {} THEN {}
         ELSE {Factory("return", PromiseOf(Lowest(U)), "pending", "add", pk, HELLO) :
                 pk \in Keys})
        \cup (IF Cardinality(U) < 2 THEN {}
              ELSE {Factory("return", PromiseOf(Lowest(U \ {Lowest(U)})), "pending",
                            "promise", pk, PromiseOf(Lowest(U))) : pk \in Keys})

Factories(s) == PlainFactories(s) \cup ReentrantFactories(s)

\* the factories the callers of Spec pass: those that leave the registry alone
\* while they run and whose result, if it has a callable then, is a promise
CallerFactories(s) == PlainFactories(s) \ {Returning(BAD_THENABLE, "pending")}

\* ------------------------------------------------------------------ actions
Apply(s) ==
    /\ count' = s.count
    /\ inflights' = s.inflights
    /\ clock' = s.clock
    /\ pstate' = s.pstate
    /\ reacts' = s.reacts
    /\ jobs' = s.jobs
    /\ started' = s.started
    /\ order' = s.order
    /\ objectLastX' = s.objectLastX

Init ==
    /\ count = 0
    /\ inflights = EmptyObject
    /\ clock = 1
    /\ pstate = [p \in Promises |-> "pending"]
    /\ reacts = [p \in Promises |-> << >>]
    /\ jobs = << >>
    /\ started = [p \in Promises |-> "none"]
    /\ order = << >>
    /\ objectLastX = 0

\* a caller calls promise(key, factory)
Promise(key) ==
    /\ key \in Keys
    /\ \E fac \in CallerFactories(Cur) : Apply(promise(Cur, key, fac).s)

\* a caller calls add(key, value, now)
Add(key, value, now) ==
    /\ value \in ManualValues
    /\ Apply(add(Cur, key, value, now).s)

\* a caller calls remove(key)
Remove(key) ==
    /\ key \in AllKeys
    /\ Apply(remove(Cur, key).s)

\* a pending promise that a factory returned settles: its reactions become
\* microtasks, in the order they were attached
Settle(p, outcome) ==
    /\ started[p] # "none"
    /\ pstate[p] = "pending"
    /\ pstate' = [pstate EXCEPT ![p] = outcome]
    /\ jobs' = jobs \o [i \in 1..Len(reacts[p]) |-> JobFor(reacts[p][i], outcome)]
    /\ reacts' = [reacts EXCEPT ![p] = << >>]
    /\ UNCHANGED <<count, inflights, clock, started, order, objectLastX>>

\* what the microtask j does: the hook () => this.remove(key).  What remove
\* throws there rejects the promise then() returned and reaches no caller.
RunHook(s, j) ==
    IF j.call /\ j.who = "hook" THEN remove(s, j.key)
    ELSE [s |-> s, threw |-> FALSE, err |-> NoErr]

\* the first microtask runs
RunJob ==
    /\ jobs # << >>
    /\ Apply(RunHook([Cur EXCEPT !.jobs = Tail(@)], Head(jobs)).s)

Next ==
    \/ \E key \in Keys : Promise(key)
    \/ \E key \in Keys : Add(key, HELLO, NoNow)
    \/ \E key \in Keys : Remove(key)
    \/ \E p \in Promises : \E outcome \in Outcomes : Settle(p, outcome)
    \/ RunJob

Spec == Init /\ [][Next]_vars

\* The microtask queue always drains: a queued reaction is eventually run.
FairSpec == Spec /\ WF_vars(RunJob)

\* time passes
Tick ==
    /\ clock < MaxTime
    /\ clock' = clock + 1
    /\ UNCHANGED <<count, inflights, pstate, reacts, jobs, started, order, objectLastX>>

\* the number of callbacks callers have attached that have not run yet
RECURSIVE SumOver(_, _)
SumOver(S, f) ==
    IF S = {} THEN 0
    ELSE LET x == CHOOSE y \in S : TRUE IN f[x] + SumOver(S \ {x}, f)
CallbacksWaiting(s) ==
    SumOver(Promises, [p \in Promises |->
        Cardinality({i \in 1..Len(s.reacts[p]) : s.reacts[p][i].who = "caller"})])
    + Cardinality({i \in 1..Len(s.jobs) : s.jobs[i].who = "caller"})

\* a caller that promise(key, f) handed p attaches a completion callback to it
Then(p) ==
    /\ started[p] # "none"
    /\ CallbacksWaiting(Cur) < MaxCallbacks
    /\ Apply(thenCaller(Cur, p, started[p]))

\* promise() with callers that attach callbacks to what it returned
NextCallback ==
    \/ \E key \in Keys : Promise(key)
    \/ \E key \in Keys : Remove(key)
    \/ \E p \in Promises : \E outcome \in Outcomes : Settle(p, outcome)
    \/ \E p \in Promises : Then(p)
    \/ RunJob

CallbackSpec == Init /\ [][NextCallback]_vars

\* a caller calls resetCheckTime(key, now)
ResetCheckTime(keyArg, now, tickAt) ==
    /\ tickAt = 0 \/ (~KeyGiven(keyArg) /\ tickAt \in 1..Len(order))
    /\ Apply(resetCheckTime(Cur, keyArg, now, tickAt).s)

\* The manual interface alone, with the optional timestamp and a moving clock.
NextManual ==
    \/ \E key \in ManualKeys : \E now \in NowArgs : Add(key, HELLO, now)
    \/ \E key \in ManualKeys : Remove(key)
    \/ \E keyArg \in {NoKey} \cup {<<k>> : k \in ManualKeys} : \E now \in NowArgs :
          \E tickAt \in TickPositions : ResetCheckTime(keyArg, now, tickAt)
    \/ Tick

ManualSpec == Init /\ [][NextManual]_vars

\* ------------------------------------------------------------------- claims
\* an entry for key exists
Tracked(s, key) == s.inflights[key].tag = "item"
\* key is untracked: get(key) returns undefined
Untracked(s, key) == get(s, key) = UNDEFINED
Settled(p) == pstate[p] # "pending"

\* C1  Dedup identity.  In every reachable state and for every key that has an
\* entry, promise(key, f2) returns the value stored in the entry, does not call
\* f2 and changes nothing, whatever f2 is.  And when promise(key, f1) has just
\* registered f1's promise on a key without an entry, the first caller holds
\* that promise and every later promise(key, f2) returns the same one.
C1_DedupIdentity ==
    \A key \in Keys :
        /\ Tracked(Cur, key) =>
              \A f2 \in Factories(Cur) :
                  LET r == promise(Cur, key, f2)
                  IN  /\ r.ret = Value(inflights[key].value)
                      /\ ~r.invoked
                      /\ ~r.threw
                      /\ r.s = Cur
        /\ \A f1 \in PlainFactories(Cur) :
              LET first == promise(Cur, key, f1)
              IN  (first.invoked /\ first.ret.kind = "value") =>
                    \A f2 \in PlainFactories(first.s) :
                        LET second == promise(first.s, key, f2)
                        IN  /\ second.ret = first.ret
                            /\ ~second.invoked
                            /\ second.s = first.s

\* a promise registered by promise() on one key is in flight while another key
\* holds an entry too, and a second caller joins it
C1_Witness ==
    \E key \in Keys, other \in Keys, p \in Promises :
        /\ other # key
        /\ Tracked(Cur, other)
        /\ Tracked(Cur, key)
        /\ inflights[key].value = p
        /\ started[p] = key
        /\ pstate[p] = "pending"
        /\ promise(Cur, key, Throwing).ret = Value(p)

\* the promises a factory returned for key that have not settled
InProgress(key) == {p \in Promises : started[p] = key /\ pstate[p] = "pending"}

Registered(key, p) == Tracked(Cur, key) /\ inflights[key].value = p

HookPending(key, p) ==
    \/ \E i \in 1..Len(reacts[p]) : reacts[p][i].key = key /\ reacts[p][i].who = "hook"
    \/ \E i \in 1..Len(jobs) :
          jobs[i].key = key /\ jobs[i].p = p /\ jobs[i].who = "hook"

OnlyDispatched == \A key \in Keys : Tracked(Cur, key) => inflights[key].value \in Promises

\* every promise a factory returned has settled and no hook is left to run
Quiescent ==
    /\ \A p \in Promises : started[p] # "none" => Settled(p)
    /\ jobs = << >>

\* some entry holds a promise that has settled
HoldsSettled == \E p \in Promises : \E key \in Keys : Settled(p) /\ Registered(key, p)

\* C4  Automatic cleanup.  Under a draining microtask queue, whenever entries
\* hold settled promises registered by promise(), a state follows in which none
\* does: a settled promise stays settled, so each such entry is eventually
\* gone, whether its promise was fulfilled or rejected.  And whenever only
\* promise() entries are present, every started promise has settled and no
\* hook is left to run, count is 0 and isEmpty is true.
C4_Cleanup ==
    /\ HoldsSettled ~> ~HoldsSettled
    /\ [](OnlyDispatched /\ Quiescent => countOf(Cur) = 0 /\ isEmpty(Cur))

\* a promise registered by promise() was rejected, its hook has run, and the
\* registry is empty again
C4_Witness ==
    \E key \in Keys : \E p \in Promises :
        /\ started[p] = key
        /\ pstate[p] = "rejected"
        /\ Quiescent
        /\ OnlyDispatched
        /\ countOf(Cur) = 0

\* C5  Count invariant.  count equals the number of keys for which get returns
\* an entry, and isEmpty holds exactly when no key has one.
C5_CountInvariant ==
    /\ countOf(Cur) = Cardinality({key \in AllKeys : ~Untracked(Cur, key)})
    /\ isEmpty(Cur) <=> \A key \in AllKeys : Untracked(Cur, key)

\* C6  promise() never throws because of its factory.  In every reachable state,
\* for every key and every factory (throwing, returning a non-promise, returning
\* a thenable whose then throws, returning a promise that is or will be
\* rejected, calling back into the registry) promise() returns normally; a
\* throw comes back as a promise rejected with the thrown error, a non-promise
\* or a failing then as a rejected promise, and a rejected promise as itself.
C6_NeverThrows ==
    \A key \in Keys : \A fac \in Factories(Cur) :
        LET r == promise(Cur, key, fac)
        IN  /\ ~r.threw
            /\ r.invoked =>
                  /\ fac.kind = "throw" => r.ret = Rejected(FactoryError)
                  /\ (fac.kind = "return" /\ fac.value \in NonFutures \cup {BAD_THENABLE})
                        => r.ret.kind = "rejected"
                  /\ (fac.kind = "return" /\ fac.pre = "none" /\ fac.value \in Promises)
                        => /\ r.ret = Value(fac.value)
                           /\ r.s.pstate[fac.value] = fac.born

\* at least one entry is tracked and a throwing factory passed on an empty key
\* comes back as a rejected promise
C6_Witness ==
    \E key \in Keys, other \in Keys :
        /\ Tracked(Cur, other)
        /\ IsUndefined(GetSlot(inflights, key))
        /\ promise(Cur, key, Throwing).invoked
        /\ promise(Cur, key, Throwing).ret = Rejected(FactoryError)

\* what counts as a future among the values promise() can hand back
IsFuture(ret) ==
    \/ ret.kind = "rejected"
    \/ ret.kind = "value" /\ ret.value \in Promises \cup {USER_PROMISE}

\* C7  promise() always returns a future: in every reachable state, for every
\* key and factory, what promise(key, factory) returns is a promise.
C7_AlwaysFuture ==
    \A key \in Keys : \A fac \in Factories(Cur) : IsFuture(promise(Cur, key, fac).ret)

\* C8  Throwing factory.  When promise(key, f) on an untracked key calls f and f
\* throws, promise returns a promise rejected with exactly the thrown error, key
\* has no entry afterwards, and count and everything else are as before.
C8_ThrowingFactory ==
    \A key \in Keys :
        LET r == promise(Cur, key, Throwing)
        IN  (Untracked(Cur, key) /\ r.invoked) =>
              /\ r.ret = Rejected(FactoryError)
              /\ ~r.threw
              /\ Untracked(r.s, key)
              /\ countOf(r.s) = countOf(Cur)
              /\ r.s = Cur

\* a throwing factory is called on an untracked key while another key is tracked
C8_Witness ==
    \E key \in Keys, other \in Keys :
        /\ Tracked(Cur, other)
        /\ countOf(Cur) > 0
        /\ Untracked(Cur, key)
        /\ promise(Cur, key, Throwing).invoked
        /\ promise(Cur, key, Throwing).ret.err = FactoryError

\* C9  Non-promise factory result.  When promise(key, f) on an untracked key
\* calls f and f returns a value without a callable then (undefined, a string,
\* an object whose then is no function), promise returns a promise rejected with
\* an assertion error that names key; no entry is registered and count is as
\* before.
C9_NonPromiseResult ==
    \A key \in Keys : \A v \in NonFutures :
        LET r == promise(Cur, key, Returning(v, "pending"))
        IN  (Untracked(Cur, key) /\ r.invoked) =>
              /\ r.ret = Rejected(AssertionError(MsgNotPromise, key))
              /\ ~r.threw
              /\ Untracked(r.s, key)
              /\ countOf(r.s) = countOf(Cur)
              /\ r.s = Cur

\* a factory returning an object with a non-callable then is called on an
\* untracked key while another key is tracked
C9_Witness ==
    \E key \in Keys, other \in Keys :
        /\ Tracked(Cur, other)
        /\ Untracked(Cur, key)
        /\ promise(Cur, key, Returning(THEN_NOT_FN, "pending")).invoked
        /\ promise(Cur, key, Returning(THEN_NOT_FN, "pending")).ret.err.about = key

\* C10  Duplicate add.  add(key, v, now) on a key that has an entry throws the
\* "already exist" assertion and leaves the entry (value, start, lastXTime),
\* count and everything else as they were, for every value and timestamp.
C10_DuplicateAdd ==
    \A key \in AllKeys :
        Tracked(Cur, key) =>
          \A v \in ManualValues : \A now \in NowArgs :
              LET r == add(Cur, key, v, now)
              IN  /\ r.threw
                  /\ r.err = AssertionError(MsgExists, key)
                  /\ r.s.inflights[key] = inflights[key]
                  /\ countOf(r.s) = countOf(Cur)
                  /\ r.s = Cur

\* a key holds an entry made earlier than now, with a value and a start time
\* that a second add with other arguments would replace
C10_Witness ==
    \E key \in AllKeys :
        /\ Tracked(Cur, key)
        /\ inflights[key].value = HELLO
        /\ inflights[key].start < clock
        /\ add(Cur, key, USER_PROMISE, <<clock>>).threw

\* C11  Remove of an untracked key.  In every reachable state, remove(key) on a
\* key for which get returns undefined throws and leaves count, the mapping and
\* everything else as they were.
C11_RemoveUntracked ==
    \A key \in AllKeys :
        Untracked(Cur, key) =>
          LET r == remove(Cur, key)
          IN  /\ r.threw
              /\ countOf(r.s) = countOf(Cur)
              /\ \A other \in AllKeys : get(r.s, other) = get(Cur, other)
              /\ r.s = Cur

\* C16  Atomic registration.  In every reachable state, for every key whose
\* lookup finds nothing and every factory that returns a promise p (plain, or
\* calling add or promise on the registry while it runs), promise(key, factory)
\* returns p itself, get(key) is p right after the call and p's hook is attached.
C16_AtomicRegistration ==
    \A key \in Keys : \A fac \in Factories(Cur) :
        LET r == promise(Cur, key, fac)
        IN  (/\ IsUndefined(GetSlot(inflights, key))
             /\ r.invoked
             /\ fac.kind = "return"
             /\ fac.value \in Promises) =>
              /\ r.ret = Value(fac.value)
              /\ get(r.s, key) = fac.value
              /\ r.s.started[fac.value] = key

\* C18  Compaction loses nothing.  In every reachable state a remove(key) that
\* returns normally had an entry for key to remove, leaves every other key's
\* entry (value, start, lastXTime) as it was, and resets the mapping only when
\* no other key was tracked.
C18_CompactionLosesNothing ==
    \A key \in AllKeys :
        LET r == remove(Cur, key)
        IN  ~r.threw =>
              /\ Tracked(Cur, key)
              /\ ~Tracked(r.s, key)
              /\ \A other \in AllKeys \ {key} :
                    Tracked(Cur, other) => r.s.inflights[other] = inflights[other]
              /\ r.s.inflights = EmptyObject =>
                    \A other \in AllKeys \ {key} : ~Tracked(Cur, other)

\* C19  The internal-consistency check of remove is unreachable.  In every
\* reachable state and for every key, remove(key) does not get past the
\* entry-exists assert while count is 0: it never throws the "list is empty"
\* assertion.
C19_ConsistencyCheckUnreachable ==
    \A key \in Keys :
        /\ ~(~IsUndefined(GetSlot(inflights, key)) /\ count = 0)
        /\ remove(Cur, key).err # AssertionError(MsgEmpty, key)

\* C20  The completion hook never fails and removes only its own entry.
\* Whenever the microtask about to run is the hook that promise(key, f) attached
\* to p, key has an entry, the entry's value is p, and the hook's remove(key)
\* does not throw.
C20_HookRemovesOwn ==
    jobs # << >> =>
        LET j == Head(jobs)
        IN  (j.call /\ j.who = "hook") =>
              /\ Registered(j.key, j.p)
              /\ ~RunHook(Cur, j).threw

\* the timestamps a caller supplies
Times == 0..MaxTime

\* C12  Elapsed-time result.  In every reachable state, for every key and every
\* supplied timestamp now (0 included): time(key, now) and elapseTime(key, now)
\* are now - getStartTime(key) when key has an entry, and -1 when get(key)
\* returns undefined.
C12_ElapsedTime ==
    \A key \in AllKeys : \A now \in Times :
        /\ Tracked(Cur, key) =>
              /\ time(Cur, key, <<now>>) = Num(now - getStartTime(Cur, key).n)
              /\ elapseTime(Cur, key, <<now>>) = time(Cur, key, <<now>>)
        /\ Untracked(Cur, key) =>
              /\ time(Cur, key, <<now>>) = Num(-1)
              /\ elapseTime(Cur, key, <<now>>) = Num(-1)

\* C13  add timestamps.  In every reachable state, for every add(key, v, now)
\* that returns normally: with now supplied (0 included) getStartTime(key) and
\* getCheckTime(key) are both now; with now omitted both are the clock reading
\* of the call; either way the two are equal.
C13_AddTimestamps ==
    \A key \in AllKeys : \A v \in ManualValues : \A now \in NowArgs :
        LET r == add(Cur, key, v, now)
        IN  ~r.threw =>
              /\ now # NoNow =>
                    /\ getStartTime(r.s, key) = Num(now[1])
                    /\ getCheckTime(r.s, key) = Num(now[1])
              /\ now = NoNow =>
                    /\ getStartTime(r.s, key) = Num(clock)
                    /\ getCheckTime(r.s, key) = Num(clock)
              /\ getStartTime(r.s, key) = getCheckTime(r.s, key)

\* C14  resetCheckTime with a key.  In every reachable state, for every key
\* given (the empty string included) and every timestamp t: resetCheckTime(key,
\* t) does not throw; when key has an entry its getCheckTime becomes t and
\* elapseCheckTime(key, now) is now - t; every other entry, every start time,
\* every value, count and the inherited Object are as before; and when get(key)
\* returns undefined nothing changes at all.
C14_ResetOneKey ==
    \A key \in AllKeys : \A t \in Times :
        LET r == resetCheckTime(Cur, <<key>>, <<t>>, 0)
        IN  /\ ~r.threw
            /\ Tracked(Cur, key) =>
                  /\ getCheckTime(r.s, key) = Num(t)
                  /\ \A now \in Times \ {0} :
                        elapseCheckTime(r.s, key, <<now>>) = Num(now - t)
                  /\ getStartTime(r.s, key) = getStartTime(Cur, key)
                  /\ get(r.s, key) = get(Cur, key)
            /\ \A other \in AllKeys \ {key} :
                  r.s.inflights[other] = inflights[other]
            /\ countOf(r.s) = countOf(Cur)
            /\ Untracked(Cur, key) => r.s = Cur

\* C15  resetCheckTime without a key.  In every reachable state, for
\* resetCheckTime() and resetCheckTime(undefined, now), whether or not the clock
\* moves on during the call: afterwards all entries have one and the same
\* lastXTime; start times, values, the set of tracked keys and count are as
\* before; the registry itself is returned.
C15_ResetAll ==
    \A now \in NowArgs : \A tickAt \in 0..Len(order) :
        LET r == resetCheckTime(Cur, NoKey, now, tickAt)
        IN  /\ ~r.threw
            /\ r.ret = Value(THIS)
            /\ \A a \in AllKeys : \A b \in AllKeys :
                  (Tracked(r.s, a) /\ Tracked(r.s, b)) =>
                      getCheckTime(r.s, a) = getCheckTime(r.s, b)
            /\ \A key \in AllKeys :
                  /\ Tracked(r.s, key) <=> Tracked(Cur, key)
                  /\ getStartTime(r.s, key) = getStartTime(Cur, key)
                  /\ get(r.s, key) = get(Cur, key)
            /\ countOf(r.s) = countOf(Cur)

\* a callback a caller attached to p on key is the microtask about to run
CallerJobAtHead(key, p) ==
    /\ jobs # << >>
    /\ Head(jobs).who = "caller"
    /\ Head(jobs).key = key
    /\ Head(jobs).p = p

\* C17  Cleanup precedes callers' callbacks.  promise(key, f) attaches the hook
\* before it returns the factory's promise p, so the hook is the first reaction
\* of p; and whenever a callback that a caller attached to p is about to run,
\* the hook of p has run, key's entry does not hold p and get(key) is not p.
C17_CleanupFirst ==
    /\ \A key \in Keys : \A fac \in PlainFactories(Cur) :
          LET r == promise(Cur, key, fac)
          IN  (r.invoked /\ r.ret.kind = "value") =>
                /\ r.ret.value \in Promises
                /\ \/ /\ r.s.reacts[r.ret.value] # << >>
                      /\ r.s.reacts[r.ret.value][1] = HookReaction(key, r.ret.value)
                   \/ /\ r.s.jobs # << >>
                      /\ r.s.jobs[Len(r.s.jobs)].who = "hook"
                      /\ r.s.jobs[Len(r.s.jobs)].key = key
                      /\ r.s.jobs[Len(r.s.jobs)].p = r.ret.value
    /\ \A p \in Promises :
          reacts[p] # << >> => reacts[p][1] = HookReaction(started[p], p)
    /\ \A key \in Keys : \A p \in Promises :
          CallerJobAtHead(key, p) =>
              /\ ~HookPending(key, p)
              /\ ~Registered(key, p)
              /\ get(Cur, key) # p

\* a caller's callback on a rejected promise is about to run while another key
\* is still tracked
C17_Witness ==
    \E key \in Keys : \E p \in Promises :
        /\ CallerJobAtHead(key, p)
        /\ started[p] = key
        /\ pstate[p] = "rejected"
        /\ countOf(Cur) > 0

\* C21  No entry without a hook.  In every reachable state, for every key and
\* every factory that leaves the registry alone: when promise(key, factory)
\* calls the factory and returns a rejected promise of its own making (the
\* catch path), key's slot, get(key) and count are as before the call.
C21_NoEntryWithoutHook ==
    \A key \in Keys : \A fac \in PlainFactories(Cur) :
        LET r == promise(Cur, key, fac)
        IN  (r.invoked /\ r.ret.kind = "rejected") =>
              /\ get(r.s, key) = get(Cur, key)
              /\ ~Tracked(r.s, key)
              /\ countOf(r.s) = countOf(Cur)

\* C22  The two shipped implementations agree.  In every reachable state, for
\* every key, factory, optional key and optional timestamp, promise and
\* resetCheckTime of lib/index.js return what those of src/index.ts return and
\* leave the same state (count, entries with their start and lastXTime); the
\* other methods have the same statements in both files.
C22_ImplementationsAgree ==
    /\ \A key \in AllKeys : \A fac \in PlainFactories(Cur) :
          libPromise(Cur, key, fac) = promise(Cur, key, fac)
    /\ \A keyArg \in KeyArgs : \A now \in NowArgs :
          libResetCheckTime(Cur, keyArg, now) = resetCheckTime(Cur, keyArg, now, 0)

====
